---- MODULE Spec2Model ----
(***************************************************************************)
(* django-mysqlpool: django_mysqlpool/backends/mysqlpool/base.py           *)
(*                                                                         *)
(* The module keeps one global, MYSQLPOOL, that holds the object returned  *)
(* by sqlalchemy.pool.manage(); get_pool() builds it lazily and calls      *)
(* pool.clear_managers() when the recorded _pid differs from os.getpid();  *)
(* connect() wraps the conv parameter in a HashableDict and asks the pool  *)
(* for a connection.                                                       *)
(*                                                                         *)
(* Python values are records [t, a, e]: t is the type tag, a the scalar    *)
(* payload, e the sequence of elements (a dict's e is its items, each a    *)
(* 2-tuple, in iteration order).                                           *)
(***************************************************************************)
EXTENDS Integers, Sequences, FiniteSets, TLC

\* ------------------------------------------------------------ bounds
NumThreads == 3
MaxPid == 3
MaxConns == 2
MaxCalls == 3
MaxEntries == 2
HashBits == 16

\* ------------------------------------------------------------ Python values
PyNone == [t |-> "none", a |-> 0, e |-> <<>>]
PyInt(n) == [t |-> "int", a |-> n, e |-> <<>>]
\* a one-character string; the character is the code a
PyStr(c) == [t |-> "str", a |-> c, e |-> <<>>]
PyList(es) == [t |-> "list", a |-> 0, e |-> es]
PyTuple(es) == [t |-> "tuple", a |-> 0, e |-> es]
\* a mapping in iteration order: items is a sequence of <<key, value>>
PyDict(items) == [t |-> "dict", a |-> 0, e |-> [i \in 1..Len(items) |-> PyTuple(items[i])]]

\* k of the i-th item and v of the i-th item of a mapping
ItemKey(d, i) == d.e[i].e[1]
ItemVal(d, i) == d.e[i].e[2]

\* Python's iteration protocol: what tuple(val) collects.
\* A one-character string yields itself, a mapping yields its keys.
PyIter(val) ==
  CASE val.t = "str" -> <<val>>
    [] val.t \in {"list", "tuple"} -> val.e
    [] val.t \in {"dict", "hdict"} -> [i \in 1..Len(val.e) |-> ItemKey(val, i)]
    [] OTHER -> <<>>

\* HashableDict._is_iterable: iter(test_me) succeeds
IterableTypes == {"str", "list", "tuple", "dict", "hdict"}

IsIterable(test_me) == test_me.t \in IterableTypes

\* HashableDict._tuplefy_as_needed: tuple(val) if iterable else val
TuplefyAsNeeded(val) == IF IsIterable(val) THEN PyTuple(PyIter(val)) ELSE val

\* HashableDict(conv): an OrderedDict holding conv's items in conv's iteration order
HashableDict(conv) == [t |-> "hdict", a |-> 0, e |-> conv.e]

\* HashableDict.__key: tuple((k, tuplefy(v)) for k, v in self.items())
HDKey(self) ==
  PyTuple([i \in 1..Len(self.e) |->
             PyTuple(<<ItemKey(self, i), TuplefyAsNeeded(ItemVal(self, i))>>)])

\* Python ==. Sequences compare element by element and only with their own
\* type; plain dicts compare as sets of items; a HashableDict compares by __key.
RECURSIVE PyEq(_, _)
PyEq(x, y) ==
  CASE x.t = "hdict" /\ y.t = "hdict" -> PyEq(HDKey(x), HDKey(y))
    [] x.t # y.t -> FALSE
    [] x.t \in {"none"} -> TRUE
    [] x.t \in {"int", "str"} -> x.a = y.a
    [] x.t \in {"list", "tuple"} ->
         /\ Len(x.e) = Len(y.e)
         /\ \A i \in 1..Len(x.e) : PyEq(x.e[i], y.e[i])
    [] x.t = "dict" ->
         /\ Len(x.e) = Len(y.e)
         /\ \A i \in 1..Len(x.e) : \E j \in 1..Len(y.e) :
              /\ PyEq(ItemKey(x, i), ItemKey(y, j))
              /\ PyEq(ItemVal(x, i), ItemVal(y, j))
    [] OTHER -> FALSE

\* hash(x) is defined: lists and plain dicts raise TypeError, a tuple is
\* hashable when its elements are, a HashableDict when its __key is.
RECURSIVE PyHashable(_)
PyHashable(x) ==
  CASE x.t \in {"none", "int", "str"} -> TRUE
    [] x.t = "tuple" -> \A i \in 1..Len(x.e) : PyHashable(x.e[i])
    [] x.t = "hdict" -> PyHashable(HDKey(x))
    [] OTHER -> FALSE

\* hash(x) for a hashable x, kept to HashBits bits.  A tuple's hash is
\* computed from its length and its elements' hashes in order.
HashMod == 2 ^ HashBits
RECURSIVE PyHash(_)
RECURSIVE TupleHash(_, _)
TupleHash(es, n) ==
  IF n = 0 THEN 7
  ELSE (TupleHash(es, n - 1) * 31 + PyHash(es[n]) + n) % HashMod
PyHash(x) ==
  CASE x.t = "none" -> 1
    [] x.t = "int" -> x.a % HashMod
    [] x.t = "str" -> (1000 + x.a) % HashMod
    [] x.t = "tuple" -> TupleHash(x.e, Len(x.e))
    [] x.t = "hdict" -> TupleHash(HDKey(x).e, Len(x.e))
    [] OTHER -> 0

\* HashableDict.__hash__: hash(self.__key()); TypeError when the key holds
\* an unhashable element
HDHashOk(self) == PyHashable(HDKey(self))
HDHash(self) == PyHash(HDKey(self))

\* HashableDict.__eq__: self.__key() == other.__key()
HDEq(self, other) == PyEq(HDKey(self), HDKey(other))

\* ------------------------------------------------------------ configuration
\* Default pool type and recycle interval
DEFAULT_BACKEND == "QueuePool"
DEFAULT_POOL_TIMEOUT == 119

\* The names getattr(pool, backend_name) finds in sqlalchemy.pool: the five
\* strategies and the abstract base class Pool they derive from.
Strategies == {"QueuePool", "SingletonThreadPool", "AssertionPool", "NullPool", "StaticPool"}
PoolModuleAttrs == Strategies \cup {"Pool"}

\* settings.MYSQLPOOL_BACKEND ("" when the attribute is not set)
BackendChoices == {"", "NullPool", "AssertionPool", "Pool", "Bogus"}

\* settings.MYSQLPOOL_ARGUMENTS: a mapping; keys is the set of keys it holds,
\* and the field of a key it does not hold is "" or 0.
NoArgs == [keys |-> {}, poolclass |-> "", recycle |-> 0, pool_size |-> 0, max_overflow |-> 0]
\* (a poolclass entry holds the class itself; the model names it)
ArgChoices ==
  { NoArgs,
    [NoArgs EXCEPT !.keys = {"recycle"}, !.recycle = 60],
    [NoArgs EXCEPT !.keys = {"pool_size", "max_overflow"}, !.pool_size = 1],
    [NoArgs EXCEPT !.keys = {"poolclass"}, !.poolclass = "NullPool"] }

SettingsChoices ==
  { [BACKEND |-> b, HAS_ARGS |-> FALSE, ARGUMENTS |-> NoArgs] : b \in BackendChoices }
  \cup { [BACKEND |-> "QueuePool", HAS_ARGS |-> TRUE, ARGUMENTS |-> a] : a \in ArgChoices }

\* the settings the concurrent runs start from
ThreadSettingsChoices ==
  { [BACKEND |-> b, HAS_ARGS |-> FALSE, ARGUMENTS |-> NoArgs] : b \in {"", "Bogus"} }

\* ------------------------------------------------------------ state
Threads == 1..NumThreads
None == 0

VARIABLES
  settings,    \* django.conf.settings: MYSQLPOOL_BACKEND, MYSQLPOOL_ARGUMENTS
  pid,         \* os.getpid() of the process being followed
  MYSQLPOOL,   \* the module global: None or the id of a _DBProxy
  proxies,     \* sqlalchemy.pool.proxies[OldDatabase]: None or the id of a _DBProxy
  insts,       \* the _DBProxy objects: poolclass, kw, pools (key -> sub-pool), _pid
  subs,        \* the sub-pool objects: the _DBProxy each was made by
  conns,       \* the physical connections the driver made: creating pid, sub-pool, status,
               \* and the routing key of the connect() that made it
  pc,          \* each thread's position: "idle", "l110", "l111", "l117", "l119", "l133"
  inConnect,   \* the thread's get_pool() was called from connect()
  first,       \* the thread's call is the first call made in the process lineage
  sup,         \* the keyword arguments the caller gave connect()
  kw,          \* connect()'s kwargs after lines 126-131
  ret,         \* the value get_pool() returned to the thread
  errs,        \* the exceptions calls have ended with
  held,        \* the connections each thread holds
  ncalls,      \* how many get_pool() and connect() calls have been made
  buildCount,  \* how many times the construction branch (lines 111-116) has run
  lateBuild,   \* the construction branch ran in a call that was not the first
  rets,        \* what get_pool() returned: pid at return, instance, its _pid, first call or not
  discards,    \* clear_managers() runs that dropped a registered pool: <<pid it was built in, pid>>
  handouts,    \* connections connect() returned: <<pid the driver made it in, pid>>
  failedKey,   \* the routing key of the connect() the driver has just failed, or NoKey
  hdA, hdB,    \* two parameter structures given to HashableDict
  hdRes        \* the outcome of comparing and hashing them

vars == <<settings, pid, MYSQLPOOL, proxies, insts, subs, conns, pc, inConnect, first,
          sup, kw, ret, errs, held, ncalls, buildCount, lateBuild, rets, discards,
          handouts, failedKey, hdA, hdB, hdRes>>

poolVars == <<settings, pid, MYSQLPOOL, proxies, insts, subs, conns, pc, inConnect, first,
              sup, kw, ret, errs, held, ncalls, buildCount, lateBuild, rets, discards,
              handouts, failedKey>>
hdVars == <<hdA, hdB, hdRes>>

\* ------------------------------------------------------------ connect(): lines 124-131
\* The keyword arguments of a connect() call: user, and conv when hasConv.
NoKwargs == [user |-> PyNone, hasConv |-> FALSE, conv |-> PyNone]

ConvX == PyStr(120)
ConvY == PyStr(121)
ConvKey0 == PyInt(0)
ConvKey12 == PyTuple(<<PyInt(1), PyInt(2)>>)
\* the same conv table built in two orders, and the empty table
ConvAB == PyDict(<< <<ConvKey0, ConvX>>, <<ConvKey12, ConvY>> >>)
ConvBA == PyDict(<< <<ConvKey12, ConvY>>, <<ConvKey0, ConvX>> >>)
ConvEmpty == PyDict(<< >>)

KwargsChoices ==
  { [user |-> PyStr(97), hasConv |-> FALSE, conv |-> PyNone] }
  \cup { [user |-> PyStr(97), hasConv |-> TRUE, conv |-> c] : c \in {ConvAB, ConvBA, ConvEmpty} }

\* Python truth of a value: None and empty containers are false
Truthy(v) ==
  CASE v.t = "none" -> FALSE
    [] v.t = "int" -> v.a # 0
    [] v.t = "str" -> TRUE
    [] OTHER -> Len(v.e) > 0

\* lines 126-131: conv = kwargs.pop('conv', None); if conv: kwargs['conv'] = HashableDict(conv)
ConvKept(conv) == Truthy(conv)
ConnectKwargs(kwargs) ==
  LET conv == IF kwargs.hasConv THEN kwargs.conv ELSE PyNone
  IN IF ConvKept(conv)
       THEN [user |-> kwargs.user, hasConv |-> TRUE, conv |-> HashableDict(conv)]
       ELSE [user |-> kwargs.user, hasConv |-> FALSE, conv |-> PyNone]

\* the parameter names a kwargs holds
ParamNames(kwargs) == {"user"} \cup (IF kwargs.hasConv THEN {"conv"} ELSE {})

\* sqlalchemy's _DBProxy._serialize: tuple((k, kw[k]) for k in sorted(kw))
NameConv == PyStr(1)
NameUser == PyStr(2)
Serialize(kwargs) ==
  PyTuple((IF kwargs.hasConv THEN << PyTuple(<<NameConv, kwargs.conv>>) >> ELSE << >>)
          \o << PyTuple(<<NameUser, kwargs.user>>) >>)

\* ------------------------------------------------------------ get_pool(): lines 107-121
\* line 110: MYSQLPOOL is None
PoolIsNoneAlways(p) == TRUE
PoolIsNone(p) == p = None

\* line 111: getattr(settings, 'MYSQLPOOL_BACKEND', DEFAULT_BACKEND)
BackendName(s) == IF s.BACKEND = "" THEN DEFAULT_BACKEND ELSE s.BACKEND

\* line 112: getattr(pool, backend_name) raises AttributeError for a name
\* sqlalchemy.pool does not define
BackendFound(name) == name \in PoolModuleAttrs

\* lines 113-115: kwargs is the settings' own mapping (a new {} when the
\* attribute is not set); setdefault adds poolclass and recycle if missing
SetDefaultsOverwrite(args, backend) ==
  [args EXCEPT
     !.keys = @ \cup {"poolclass", "recycle"},
     !.poolclass = backend,
     !.recycle = DEFAULT_POOL_TIMEOUT]
SetDefaults(args, backend) ==
  [args EXCEPT
     !.keys = @ \cup {"poolclass", "recycle"},
     !.poolclass = IF "poolclass" \in args.keys THEN @ ELSE backend,
     !.recycle = IF "recycle" \in args.keys THEN @ ELSE DEFAULT_POOL_TIMEOUT]

BuildKwargs(s) == SetDefaults(IF s.HAS_ARGS THEN s.ARGUMENTS ELSE NoArgs, BackendName(s))

\* the settings after lines 113-115: setdefault writes into the mapping the
\* settings hold
SettingsAfterBuild(s) ==
  IF s.HAS_ARGS THEN [s EXCEPT !.ARGUMENTS = BuildKwargs(s)] ELSE s

\* _DBProxy(module, poolclass=..., **kw): a new manager with no sub-pools and
\* no _pid attribute; bpid remembers the pid it was built in
NewProxy(kwargs, p) ==
  [poolclass |-> kwargs.poolclass,
   kw |-> [kwargs EXCEPT !.keys = @ \ {"poolclass"}, !.poolclass = ""],
   pools |-> << >>, xpid |-> None, bpid |-> p]

\* line 119: getattr(MYSQLPOOL, '_pid', None) != os.getpid()
PidDiffers(recorded, current) == recorded # current

\* ------------------------------------------------------------ the pool library
\* pool.manage(OldDatabase, **kwargs): the registered manager when there is
\* one (the arguments are then ignored), else a new one, registered
ManageHit(reg) == reg # None

\* pool.clear_managers(): close() every registered manager, which drops all
\* its sub-pools, then empty the registry
ClearedInstsAll(is, reg) == [i \in 1..Len(is) |-> [is[i] EXCEPT !.pools = << >>]]
ClearedInsts(is, reg) ==
  IF reg = None THEN is ELSE [is EXCEPT ![reg].pools = << >>]

\* self.pools[key]: the entry with an equal hash and an equal key
Lookup(pools, key) ==
  { i \in 1..Len(pools) :
      /\ PyHash(pools[i].key) = PyHash(key)
      /\ PyEq(pools[i].key, key) }

\* the keyword arguments each pool class accepts besides the creator
Accepted(cls) ==
  IF cls = "QueuePool" THEN {"recycle", "pool_size", "max_overflow"} ELSE {"recycle"}

\* QueuePool(pool_size=5, max_overflow=10)
QueueSize(k) == IF "pool_size" \in k.keys THEN k.pool_size ELSE 5
QueueOverflow(k) == IF "max_overflow" \in k.keys THEN k.max_overflow ELSE 10

ConnIds == 1..Len(conns)
IdleOf(s) == { c \in ConnIds : conns[c].sub = s /\ conns[c].st = "idle" }
OutOf(s) == { c \in ConnIds : conns[c].sub = s /\ conns[c].st = "out" }

\* OldDatabaseProxy.connect: self.old_connect(**kwargs) returns a connection
\* or raises the driver's error
DriverError == "OperationalError"
\* lines 49 and 133 are plain returns with no handler around them: what the
\* driver raises leaves connect() as it was raised
PropagateMasked(e) == "PoolError"
Propagate(e) == e

\* the last connect() did not end with a driver error, or a connection was
\* released since
NoKey == PyNone

\* ------------------------------------------------------------ initial state
InitPool ==
  /\ pid = 1
  /\ MYSQLPOOL = None
  /\ proxies = None
  /\ insts = << >>
  /\ subs = << >>
  /\ conns = << >>
  /\ pc = [t \in Threads |-> "idle"]
  /\ inConnect = [t \in Threads |-> FALSE]
  /\ first = [t \in Threads |-> FALSE]
  /\ sup = [t \in Threads |-> NoKwargs]
  /\ kw = [t \in Threads |-> NoKwargs]
  /\ ret = [t \in Threads |-> None]
  /\ errs = {}
  /\ held = [t \in Threads |-> {}]
  /\ ncalls = 0
  /\ buildCount = 0
  /\ lateBuild = FALSE
  /\ rets = {}
  /\ discards = {}
  /\ handouts = {}
  /\ failedKey = NoKey

NoResult == [done |-> FALSE, eq |-> FALSE, hashOkA |-> FALSE, hashOkB |-> FALSE,
             hashA |-> 0, hashB |-> 0]

Init ==
  /\ settings \in SettingsChoices
  /\ InitPool
  /\ hdA = ConvEmpty
  /\ hdB = ConvEmpty
  /\ hdRes = NoResult

\* ------------------------------------------------------------ actions
histUnchanged == UNCHANGED <<buildCount, lateBuild, rets, discards, handouts, failedKey>>

\* the thread's call is over: its frame's locals are gone
EndCall(t) ==
  /\ pc' = [pc EXCEPT ![t] = "idle"]
  /\ inConnect' = [inConnect EXCEPT ![t] = FALSE]
  /\ first' = [first EXCEPT ![t] = FALSE]
  /\ sup' = [sup EXCEPT ![t] = NoKwargs]
  /\ kw' = [kw EXCEPT ![t] = NoKwargs]
  /\ ret' = [ret EXCEPT ![t] = None]

\* the thread's call ends with exception e
Raise(t, e) ==
  /\ EndCall(t)
  /\ errs' = errs \cup {e}

\* a caller calls get_pool()
CallGetPool(t) ==
  /\ pc[t] = "idle"
  /\ pc' = [pc EXCEPT ![t] = "l110"]
  /\ ncalls < MaxCalls
  /\ first' = [first EXCEPT ![t] = (ncalls = 0)]
  /\ ncalls' = ncalls + 1
  /\ UNCHANGED <<settings, pid, MYSQLPOOL, proxies, insts, subs, conns, inConnect, sup, kw,
                 ret, errs, held, hdVars>>
  /\ histUnchanged

\* a caller calls connect(**kwargs): lines 126-131, then get_pool() is entered
CallConnect(t, kwargs) ==
  /\ pc[t] = "idle"
  /\ pc' = [pc EXCEPT ![t] = "l110"]
  /\ inConnect' = [inConnect EXCEPT ![t] = TRUE]
  /\ ncalls < MaxCalls
  /\ first' = [first EXCEPT ![t] = (ncalls = 0)]
  /\ ncalls' = ncalls + 1
  /\ sup' = [sup EXCEPT ![t] = kwargs]
  /\ kw' = [kw EXCEPT ![t] = ConnectKwargs(kwargs)]
  /\ UNCHANGED <<settings, pid, MYSQLPOOL, proxies, insts, subs, conns, ret, errs, held,
                 hdVars>>
  /\ histUnchanged

\* line 110: if MYSQLPOOL is None
TestNone(t) ==
  /\ pc[t] = "l110"
  /\ pc' = [pc EXCEPT ![t] = IF PoolIsNone(MYSQLPOOL) THEN "l111" ELSE "l119"]
  /\ UNCHANGED <<settings, pid, MYSQLPOOL, proxies, insts, subs, conns, inConnect, first,
                 sup, kw, ret, errs, held, ncalls, hdVars>>
  /\ histUnchanged

\* lines 111-112 with a backend name sqlalchemy.pool does not define:
\* getattr raises AttributeError and the call ends
BuildFails(t) ==
  /\ pc[t] = "l111"
  /\ ~BackendFound(BackendName(settings))
  /\ Raise(t, "AttributeError")
  /\ UNCHANGED <<settings, pid, MYSQLPOOL, proxies, insts, subs, conns, held, ncalls,
                 hdVars>>
  /\ histUnchanged

\* lines 111-116: read the settings, MYSQLPOOL = pool.manage(OldDatabase, **kwargs)
Build(t) ==
  /\ pc[t] = "l111"
  /\ BackendFound(BackendName(settings))
  /\ settings' = SettingsAfterBuild(settings)
  /\ IF ManageHit(proxies)
       THEN /\ MYSQLPOOL' = proxies
            /\ UNCHANGED <<proxies, insts>>
       ELSE /\ insts' = Append(insts, NewProxy(BuildKwargs(settings), pid))
            /\ proxies' = Len(insts) + 1
            /\ MYSQLPOOL' = Len(insts) + 1
  /\ buildCount' = buildCount + 1
  /\ lateBuild' = (lateBuild \/ ~first[t])
  /\ pc' = [pc EXCEPT ![t] = "l117"]
  /\ UNCHANGED <<pid, subs, conns, inConnect, first, sup, kw, ret, errs, held, ncalls,
                 rets, discards, handouts, failedKey, hdVars>>

\* line 117: setattr(MYSQLPOOL, '_pid', os.getpid())
SetPid(t) ==
  /\ pc[t] = "l117"
  /\ insts' = [insts EXCEPT ![MYSQLPOOL].xpid = pid]
  /\ pc' = [pc EXCEPT ![t] = "l119"]
  /\ UNCHANGED <<settings, pid, MYSQLPOOL, proxies, subs, conns, inConnect, first,
                 sup, kw, ret, errs, held, ncalls, hdVars>>
  /\ histUnchanged

\* lines 119-121: clear the managers if the recorded _pid is not this
\* process's, then return MYSQLPOOL (to connect(), or to the caller)
CheckPidReturn(t) ==
  /\ pc[t] = "l119"
  /\ IF PidDiffers(insts[MYSQLPOOL].xpid, pid)
       THEN /\ insts' = ClearedInsts(insts, proxies)
            /\ proxies' = None
            /\ discards' = IF proxies = None THEN discards
                           ELSE discards \cup {<<insts[proxies].bpid, pid>>}
       ELSE UNCHANGED <<insts, proxies, discards>>
  /\ rets' = rets \cup {[pid |-> pid, inst |-> MYSQLPOOL, xpid |-> insts[MYSQLPOOL].xpid,
                         first |-> first[t]]}
  /\ IF inConnect[t]
       THEN /\ pc' = [pc EXCEPT ![t] = "l133"]
            /\ ret' = [ret EXCEPT ![t] = MYSQLPOOL]
            /\ UNCHANGED <<inConnect, first, sup, kw>>
       ELSE EndCall(t)
  /\ UNCHANGED <<settings, pid, MYSQLPOOL, subs, conns, errs, held, ncalls, buildCount,
                 lateBuild, handouts, failedKey, hdVars>>

\* the driver makes a physical connection for sub-pool s and the thread gets it
NewConn(t, s) ==
  /\ Len(conns) < MaxConns
  /\ conns' = Append(conns, [pid |-> pid, sub |-> s, st |-> "out",
                              key |-> Serialize(kw[t])])
  /\ held' = [held EXCEPT ![t] = @ \cup {Len(conns) + 1}]
  /\ handouts' = handouts \cup {<<pid, pid>>}
  /\ failedKey' = NoKey
  /\ EndCall(t)
  /\ UNCHANGED errs

\* the driver's connect raises: the pool class lets the error through and
\* counts no connection, and connect() ends with it
DriverFails(t) ==
  /\ Len(conns) < MaxConns
  /\ Raise(t, Propagate(DriverError))
  /\ failedKey' = Serialize(kw[t])
  /\ UNCHANGED <<conns, held, handouts>>

\* the pool class calls its creator, OldDatabase.connect (lines 46-49);
\* mayFail: the database may refuse the connection
OldConnect(t, s, mayFail) == NewConn(t, s) \/ (mayFail /\ DriverFails(t))

\* connect() ends with exception e raised by the pool, the driver not called
RaiseNoDriver(t, e) ==
  /\ Raise(t, e)
  /\ failedKey' = NoKey
  /\ UNCHANGED <<conns, held, handouts>>

\* the sub-pool hands out the idle connection c
Reuse(t, c) ==
  /\ conns' = [conns EXCEPT ![c].st = "out"]
  /\ held' = [held EXCEPT ![t] = @ \cup {c}]
  /\ handouts' = handouts \cup {<<conns[c].pid, pid>>}
  /\ failedKey' = NoKey
  /\ EndCall(t)
  /\ UNCHANGED errs

\* the pool class's connect() on sub-pool s.  The abstract Pool has no
\* _do_get; NullPool always opens a connection; QueuePool hands out an idle
\* connection, opens one while fewer than pool_size + max_overflow are out,
\* and otherwise waits and raises TimeoutError; AssertionPool raises
\* AssertionError while its connection is checked out, and otherwise hands
\* out the one connection it keeps, opening it the first time.
SubPoolConnect(t, cls, k, s, mayFail) ==
  IF cls = "QueuePool"
    THEN IF IdleOf(s) # {}
           THEN \E c \in IdleOf(s) : Reuse(t, c)
           ELSE IF Cardinality(OutOf(s)) < QueueSize(k) + QueueOverflow(k)
                  THEN OldConnect(t, s, mayFail)
                  ELSE RaiseNoDriver(t, "TimeoutError")
    ELSE IF cls = "NullPool"
           THEN OldConnect(t, s, mayFail)
           ELSE IF cls = "AssertionPool"
                  THEN IF OutOf(s) # {}
                         THEN RaiseNoDriver(t, "AssertionError")
                         ELSE IF IdleOf(s) # {}
                                THEN \E c \in IdleOf(s) : Reuse(t, c)
                                ELSE OldConnect(t, s, mayFail)
                  ELSE RaiseNoDriver(t, "NotImplementedError")

\* line 133: get_pool().connect(**kwargs) on the manager get_pool() returned:
\* find the sub-pool of the serialized kwargs, or make it, and connect
PoolConnect(t, mayFail) ==
  /\ pc[t] = "l133"
  /\ LET i == ret[t]
         key == Serialize(kw[t])
         hit == Lookup(insts[i].pools, key)
         cls == insts[i].poolclass
         k == insts[i].kw
     IN IF ~PyHashable(key) \/ (hit = {} /\ ~(k.keys \subseteq Accepted(cls)))
          THEN /\ RaiseNoDriver(t, "TypeError")
               /\ UNCHANGED <<insts, subs>>
          ELSE IF hit = {}
                 THEN /\ subs' = Append(subs, i)
                      /\ insts' = [insts EXCEPT ![i].pools =
                                     Append(@, [key |-> key, sub |-> Len(subs) + 1])]
                      /\ SubPoolConnect(t, cls, k, Len(subs) + 1, mayFail)
                 ELSE /\ UNCHANGED <<subs, insts>>
                      /\ SubPoolConnect(t, cls, k,
                           insts[i].pools[CHOOSE j \in hit : \A j2 \in hit : j <= j2].sub,
                           mayFail)
  /\ UNCHANGED <<settings, pid, MYSQLPOOL, proxies, ncalls, buildCount, lateBuild, rets,
                 discards, hdVars>>

\* what becomes of a connection given back to sub-pool s of manager m
ReturnedKept(m, s) == "idle"
Returned(m, s) ==
  IF \/ m.poolclass = "QueuePool" /\ Cardinality(IdleOf(s)) < QueueSize(m.kw)
     \/ m.poolclass = "AssertionPool"
    THEN "idle" ELSE "closed"

\* the caller closes connection c: it goes back to the sub-pool it came
\* from.  QueuePool keeps up to pool_size idle connections and closes the
\* rest; AssertionPool keeps its one connection; NullPool closes it.
Release(t, c) ==
  /\ pc[t] = "idle"
  /\ c \in held[t]
  /\ LET s == conns[c].sub
         m == insts[subs[s]]
     IN conns' = [conns EXCEPT ![c].st = Returned(m, s)]
  /\ held' = [held EXCEPT ![t] = @ \ {c}]
  /\ failedKey' = NoKey
  /\ UNCHANGED <<settings, pid, MYSQLPOOL, proxies, insts, subs, pc, inConnect, first,
                 sup, kw, ret, errs, ncalls, buildCount, lateBuild, rets, discards,
                 handouts, hdVars>>

\* thread t forks and the child is followed: os.getpid() changes, memory is
\* copied as it is, and only the forking thread exists in the child
Fork(t) ==
  /\ pc[t] = "idle"
  /\ pid < MaxPid
  /\ pid' = pid + 1
  /\ pc' = [u \in Threads |-> "idle"]
  /\ inConnect' = [u \in Threads |-> FALSE]
  /\ first' = [u \in Threads |-> FALSE]
  /\ sup' = [u \in Threads |-> NoKwargs]
  /\ kw' = [u \in Threads |-> NoKwargs]
  /\ ret' = [u \in Threads |-> None]
  /\ held' = [u \in Threads |-> IF u = t THEN held[t] ELSE {}]
  /\ UNCHANGED <<settings, MYSQLPOOL, proxies, insts, subs, conns, errs, ncalls, hdVars>>
  /\ histUnchanged

\* what a thread of the process can do, the database accepting every
\* connection
Call(t) ==
  \/ CallGetPool(t)
  \/ \E kwargs \in KwargsChoices : CallConnect(t, kwargs)
  \/ TestNone(t)
  \/ BuildFails(t)
  \/ Build(t)
  \/ SetPid(t)
  \/ CheckPidReturn(t)
  \/ PoolConnect(t, FALSE)
  \/ \E c \in held[t] : Release(t, c)

\* the threads of one process call concurrently
InitThreads ==
  /\ settings \in ThreadSettingsChoices
  /\ InitPool
  /\ hdA = ConvEmpty
  /\ hdB = ConvEmpty
  /\ hdRes = NoResult
Next == \E t \in Threads : Call(t)
Spec == InitThreads /\ [][Next]_vars

\* one thread makes its calls one after another, and may fork between them
NextSeq == Call(1) \/ Fork(1)
SpecSeq == Init /\ [][NextSeq]_vars

\* the same with a database that may refuse connections, under NullPool and
\* under a QueuePool of one connection
DrvSettingsChoices ==
  { [BACKEND |-> "NullPool", HAS_ARGS |-> FALSE, ARGUMENTS |-> NoArgs],
    [BACKEND |-> "QueuePool", HAS_ARGS |-> TRUE,
     ARGUMENTS |-> [NoArgs EXCEPT !.keys = {"pool_size", "max_overflow"},
                                  !.pool_size = 1]] }
InitDrv ==
  /\ settings \in DrvSettingsChoices
  /\ InitPool
  /\ hdA = ConvEmpty
  /\ hdB = ConvEmpty
  /\ hdRes = NoResult
CallDrv(t) == (pc[t] # "l133" /\ Call(t)) \/ PoolConnect(t, TRUE)
NextDrv == CallDrv(1) \/ Fork(1)
SpecDrv == InitDrv /\ [][NextDrv]_vars

\* ------------------------------------------------------------ HashableDict on its own
\* the values a conv table's entries are drawn from: scalars, flat
\* sequences, a nested mapping with two different values, nested sequences
HDKeys == {ConvKey0, ConvKey12}
HDValues ==
  { PyInt(1), ConvX,
    PyList(<<PyInt(1)>>), PyTuple(<<PyInt(1)>>), PyList(<<ConvX>>),
    PyDict(<< <<PyInt(1), ConvX>> >>), PyDict(<< <<PyInt(1), ConvY>> >>),
    PyList(<<PyList(<<PyInt(1)>>)>>), PyList(<<PyTuple(<<PyInt(1)>>)>>) }

\* the mappings with at most MaxEntries entries, in every iteration order
HDItemSeqs ==
  UNION { { items \in [1..n -> HDKeys \X HDValues] :
              \A i, j \in 1..n : i # j => items[i][1] # items[j][1] } : n \in 0..MaxEntries }
HDMaps == { PyDict(items) : items \in HDItemSeqs }

InitHD ==
  /\ settings = [BACKEND |-> "", HAS_ARGS |-> FALSE, ARGUMENTS |-> NoArgs]
  /\ InitPool
  /\ hdA \in HDMaps
  /\ hdB \in HDMaps
  /\ hdRes = NoResult

\* wrap both structures, compare the wrappers and hash them
HDCompare ==
  /\ ~hdRes.done
  /\ LET a == HashableDict(hdA)
         b == HashableDict(hdB)
     IN hdRes' = [done |-> TRUE,
                  eq |-> HDEq(a, b),
                  hashOkA |-> HDHashOk(a),
                  hashOkB |-> HDHashOk(b),
                  hashA |-> IF HDHashOk(a) THEN HDHash(a) ELSE 0,
                  hashB |-> IF HDHashOk(b) THEN HDHash(b) ELSE 0]
  /\ UNCHANGED <<hdA, hdB>>
  /\ UNCHANGED poolVars

NextHD == HDCompare
SpecHD == InitHD /\ [][NextHD]_vars

\* ------------------------------------------------------------ properties

\* C1: get_pool calls made one after another in a process whose pid does not
\* change all return the same pool instance, and the construction branch
\* runs exactly once, in the first call (SpecSeq).
C1_SamePoolBuiltOnce ==
  /\ \A r1, r2 \in rets : r1.pid = r2.pid => r1.inst = r2.inst
  /\ buildCount <= 1
  /\ ~lateBuild
  /\ (rets # {} => buildCount = 1)

\* C1 witness: a first call and a later call have both returned in one process
C1_Witness ==
  \E r1, r2 \in rets : r1.pid = r2.pid /\ r1.first /\ ~r2.first /\ r1.inst = r2.inst

\* C2: the pool get_pool returns has _pid equal to the current process id,
\* also in the first call after a fork (SpecSeq).
C2_ReturnedPoolHasCurrentPid ==
  \A r \in rets : r.xpid = r.pid

\* C3: every connection connect hands out was made by the driver in the
\* process it is handed out in: none made before a fork is returned after it
\* (SpecSeq).
C3_NoConnectionCrossesFork ==
  \A h \in handouts : h[1] = h[2]

\* C4: under every interleaving of the threads' first calls the pool is
\* constructed exactly once and all threads receive the same instance (Spec).
C4_ConstructOnce ==
  /\ buildCount <= 1
  /\ \A r1, r2 \in rets : r1.inst = r2.inst

\* C5: clear_managers drops a registered pool only in a process whose pid is
\* not the pid the pool was built in (Spec).
C5_DiscardOnlyAfterFork ==
  \A d \in discards : d[1] # d[2]

\* C6: with a configured strategy name that is not one of the five
\* strategies, get_pool fails: no pool is installed or returned, and every
\* finished call has raised (SpecSeq).
C6_UnknownStrategyFails ==
  (settings.BACKEND # "" /\ settings.BACKEND \notin Strategies) =>
    /\ MYSQLPOOL = None
    /\ insts = << >>
    /\ rets = {}
    /\ (ncalls > 0 /\ pc[1] = "idle" => errs # {})

\* structural equality of parameter structures: mappings entry by entry in
\* order, iterables as ordered sequences of their elements, scalars by value
IsSeqLike(x) == x.t \in {"str", "list", "tuple"}
RECURSIVE StructEq(_, _)
StructEq(x, y) ==
  CASE x.t = "dict" /\ y.t = "dict" ->
         /\ Len(x.e) = Len(y.e)
         /\ \A i \in 1..Len(x.e) :
              /\ StructEq(ItemKey(x, i), ItemKey(y, i))
              /\ StructEq(ItemVal(x, i), ItemVal(y, i))
    [] x.t = "dict" \/ y.t = "dict" -> FALSE
    [] x.t = y.t /\ x.t \in {"none", "int", "str"} -> x.a = y.a
    [] IsSeqLike(x) /\ IsSeqLike(y) ->
         /\ Len(PyIter(x)) = Len(PyIter(y))
         /\ \A i \in 1..Len(PyIter(x)) : StructEq(PyIter(x)[i], PyIter(y)[i])
    [] OTHER -> FALSE

\* C7: structurally equal structures give equal HashableDicts whose hashes
\* are defined and equal (SpecHD).
C7_EqualStructuresEqualAndSameHash ==
  (hdRes.done /\ StructEq(hdA, hdB)) =>
    /\ hdRes.eq
    /\ hdRes.hashOkA /\ hdRes.hashOkB
    /\ hdRes.hashA = hdRes.hashB

\* C8: structurally different structures give unequal HashableDicts (SpecHD).
C8_DifferentStructuresUnequal ==
  (hdRes.done /\ ~StructEq(hdA, hdB)) => ~hdRes.eq

\* two keyword-argument sets with the same parameters, conv compared as a
\* mapping: the same key/value pairs, in whatever order they were inserted
SameParams(k1, k2) ==
  /\ k1.user = k2.user
  /\ k1.hasConv = k2.hasConv
  /\ PyEq(k1.conv, k2.conv)
WrappedConv(kwargs) == ConnectKwargs(kwargs).conv

\* C9: a connect call whose conv table holds the same pairs as an earlier
\* call's, inserted in another order, is routed to the sub-pool entry the
\* earlier call made: the wrapped conv values are equal and hash identically
\* (SpecSeq).
C9_ConvOrderSameSubPool ==
  \A t \in Threads : \A k2 \in KwargsChoices :
    LET pools == insts[ret[t]].pools
        made == Lookup(pools, Serialize(ConnectKwargs(k2)))
    IN (pc[t] = "l133" /\ sup[t].hasConv /\ SameParams(sup[t], k2) /\ made # {}) =>
         /\ HDEq(WrappedConv(sup[t]), WrappedConv(k2))
         /\ HDHash(WrappedConv(sup[t])) = HDHash(WrappedConv(k2))
         /\ Lookup(pools, Serialize(kw[t])) = made

\* C10: the parameters connect passes to the pool have the names the caller
\* gave, user unchanged, and conv, whenever given, as its HashableDict
\* (SpecSeq).
C10_ParametersPassedOn ==
  \A t \in Threads :
    (pc[t] # "idle" /\ inConnect[t]) =>
      /\ ParamNames(kw[t]) = ParamNames(sup[t])
      /\ kw[t].user = sup[t].user
      /\ (sup[t].hasConv => kw[t].hasConv /\ kw[t].conv = HashableDict(sup[t].conv))

\* the connections callers of the process hold: handed out by connect() and
\* not yet closed
HeldLive == UNION { held[t] : t \in Threads }

\* C11: with QueuePool configured with room for N connections (pool_size,
\* and max_overflow on top of it), the callers of the process never hold
\* more than N connections obtained through connect (SpecSeq).
C11_AtMostNLive ==
  (MYSQLPOOL # None /\ insts[MYSQLPOOL].poolclass = "QueuePool") =>
    Cardinality(HeldLive) <= QueueSize(insts[MYSQLPOOL].kw) + QueueOverflow(insts[MYSQLPOOL].kw)

\* C12: with AssertionPool, while a connection obtained through connect is
\* outstanding no second connection is handed out: the callers of the
\* process never hold more than one (SpecSeq).
C12_OneOutstanding ==
  (MYSQLPOOL # None /\ insts[MYSQLPOOL].poolclass = "AssertionPool") =>
    Cardinality(HeldLive) <= 1

\* what the settings name: the strategy (QueuePool when the name is not
\* set) and the recycle interval (119 when the arguments hold none)
NamedStrategy(s) == IF s.BACKEND = "" THEN "QueuePool" ELSE s.BACKEND
NamedRecycle(s) ==
  IF s.HAS_ARGS /\ "recycle" \in s.ARGUMENTS.keys THEN s.ARGUMENTS.recycle ELSE 119
\* the other arguments the settings give are passed on as they are
OtherArgsKept(s, m) ==
  LET a == IF s.HAS_ARGS THEN s.ARGUMENTS ELSE NoArgs
  IN /\ m.kw.keys \ {"recycle"} = a.keys \ {"poolclass", "recycle"}
     /\ m.kw.pool_size = a.pool_size
     /\ m.kw.max_overflow = a.max_overflow

\* C13 as stated: every pool that is constructed has the strategy the
\* strategy-name setting names (QueuePool when unset) and the recycle
\* interval of the arguments (119 when unset) (SpecSeq).
C13_BuiltAsNamed ==
  [][Len(insts') > Len(insts) =>
       /\ insts'[Len(insts')].poolclass = NamedStrategy(settings)
       /\ insts'[Len(insts')].kw.recycle = NamedRecycle(settings)]_vars

\* C13 amended: every pool that is constructed has the poolclass entry of
\* the arguments when they hold one, else the strategy the strategy-name
\* setting names (QueuePool when unset); its recycle interval is the
\* arguments' (119 when unset), and the arguments' other entries are kept
\* (SpecSeq).
C13_BuiltFromConfiguration ==
  [][Len(insts') > Len(insts) =>
       /\ insts'[Len(insts')].poolclass =
            (IF settings.HAS_ARGS /\ "poolclass" \in settings.ARGUMENTS.keys
               THEN settings.ARGUMENTS.poolclass ELSE NamedStrategy(settings))
       /\ insts'[Len(insts')].kw.recycle = NamedRecycle(settings)
       /\ OtherArgsKept(settings, insts'[Len(insts')])]_vars

\* C13 witness: a pool was constructed from arguments that set the recycle
\* interval, and it has that interval
C13_Witness ==
  /\ insts # << >>
  /\ settings.HAS_ARGS
  /\ settings.ARGUMENTS.recycle = 60
  /\ insts[1].kw.recycle = 60

\* a step in which a connect() call ends with the driver's connect having
\* raised
DriverFailedStep == failedKey' # NoKey
\* a step in which thread t's connect() call asks the pool for a connection
\* and ends
ConnectEnds(t) == pc[t] = "l133" /\ pc'[t] = "idle" /\ pid' = pid

\* C14: when the driver's connect raises, connect ends with that same error
\* and no other; the pool stays installed; no connection is made, handed out
\* or held; and the next connect with the same parameters, with no
\* connection released in between, calls the driver again (SpecDrv).
C14_DriverErrorSurfaces ==
  [][\A t \in Threads :
       /\ (ConnectEnds(t) /\ DriverFailedStep) =>
            /\ errs' = errs \cup {"OperationalError"}
            /\ MYSQLPOOL' = MYSQLPOOL /\ MYSQLPOOL' # None
            /\ insts'[MYSQLPOOL'].xpid = insts[MYSQLPOOL].xpid
            /\ conns' = conns /\ held' = held /\ handouts' = handouts
       /\ (ConnectEnds(t) /\ failedKey # NoKey /\ failedKey = Serialize(kw[t])) =>
            (Len(conns') > Len(conns) \/ DriverFailedStep)]_vars

\* C14 witness: the driver failed a connect, which ended with its error, and
\* the next connect with the same parameters has reached the pool
C14_Witness ==
  /\ "OperationalError" \in errs
  /\ failedKey # NoKey
  /\ \E t \in Threads : pc[t] = "l133" /\ failedKey = Serialize(kw[t])

\* C15: with NullPool, a connect call that returns a connection returns one
\* the driver made in that call, every connect call that ends has called
\* the driver, and a released connection is closed: no connection is handed
\* out twice (SpecDrv).
C15_NullPoolNeverReuses ==
  [][(MYSQLPOOL # None /\ insts[MYSQLPOOL].poolclass = "NullPool" /\ pid' = pid) =>
       \A t \in Threads :
         /\ \A c \in held'[t] \ held[t] :
              /\ c = Len(conns) + 1
              /\ Len(conns') = Len(conns) + 1
              /\ conns'[c].st = "out"
         /\ \A c \in held[t] \ held'[t] : conns'[c].st = "closed"
         /\ \A c \in ConnIds : conns'[c].st # "idle"
         /\ ConnectEnds(t) => (Len(conns') = Len(conns) + 1 \/ DriverFailedStep)]_vars

\* C15 witness: with NullPool a connection was returned, released and so
\* closed, and a later connect returned another one
C15_Witness ==
  /\ MYSQLPOOL # None /\ insts[MYSQLPOOL].poolclass = "NullPool"
  /\ Len(conns) = 2
  /\ conns[1].st = "closed"
  /\ conns[2].st = "out" /\ 2 \in HeldLive

\* a value that is, or holds at some depth, a list or a mapping
RECURSIVE HasListOrMapping(_)
HasListOrMapping(x) ==
  \/ x.t \in {"list", "dict", "hdict"}
  \/ x.t = "tuple" /\ \E i \in 1..Len(x.e) : HasListOrMapping(x.e[i])
\* n is the tuple of the key/value pairs of mapping d, whatever form the
\* values take
IsPairsOf(n, d) ==
  /\ n.t = "tuple"
  /\ Len(n.e) = Len(d.e)
  /\ \A j \in 1..Len(d.e) :
       /\ n.e[j].t = "tuple"
       /\ Len(n.e[j].e) = 2
       /\ n.e[j].e[1] = ItemKey(d, j)

\* C16: the key form of a HashableDict holds no list and no mapping at any
\* depth, a nested mapping appears in it as the tuple of its key/value
\* pairs, and its hash is defined (SpecHD).
C16_KeyFormNormalized ==
  hdRes.done =>
    LET key == HDKey(HashableDict(hdA))
    IN /\ ~HasListOrMapping(key)
       /\ \A i \in 1..Len(hdA.e) :
            ItemVal(hdA, i).t = "dict" => IsPairsOf(key.e[i].e[2], ItemVal(hdA, i))
       /\ hdRes.hashOkA

\* a get_pool() call has already returned in this process
ReturnedHere == \E r \in rets : r.pid = pid
\* sequence p is the beginning of sequence q
IsPrefix(p, q) == Len(p) <= Len(q) /\ \A j \in 1..Len(p) : q[j] = p[j]
\* the idle connections made in this process by a connect() with routing key k
IdleHere(k) ==
  { c \in ConnIds : conns[c].st = "idle" /\ conns[c].pid = pid /\ conns[c].key = k }

\* C17: once a get_pool call has returned in a process, later get_pool and
\* connect calls of that process close no registered pool, remove no
\* sub-pool and close no idle connection; and a connect with the keyword
\* arguments (conv entries in the same order) of a connection that was made
\* and released in this process is served from the idle connections of the
\* sub-pool that connection lies in (SpecSeq).
C17_DiscardedOncePerFork ==
  [][(ReturnedHere /\ pid' = pid) =>
       /\ ~(proxies # None /\ proxies' = None)
       /\ \A i \in 1..Len(insts) : IsPrefix(insts[i].pools, insts'[i].pools)
       /\ \A c \in ConnIds : conns[c].st = "idle" => conns'[c].st \in {"idle", "out"}
       /\ \A t \in Threads :
            \A c \in IdleHere(Serialize(kw[t])) :
              ConnectEnds(t) =>
                \E d \in IdleOf(conns[c].sub) : d \in held'[t] /\ conns'[d].st = "out"]_vars

\* C17 witness: in a forked child whose first call closed the parent's
\* pool, a connect has reached the pool while a connection made in the child
\* with the same keyword arguments lies idle
C17_Witness ==
  /\ pid > 1
  /\ \E t \in Threads : pc[t] = "l133" /\ IdleHere(Serialize(kw[t])) # {}
  /\ discards # {}

\* C18: get_pool only reads the configuration: no step of it changes the
\* settings, so after the pool is constructed MYSQLPOOL_ARGUMENTS has the
\* keys and values it had before (SpecSeq).
C18_SettingsOnlyRead ==
  [][settings' = settings]_vars

====
